---- MODULE Spec2Model ----
(***************************************************************************)
(* Pixel-analysis engine of dgt_harvest_rust: the sprite scanner of        *)
(* lib.rs (HarvestScanner), the full material triage engine of             *)
(* lib_complex.rs (MaterialTriageEngine) and the reduced engine of         *)
(* lib_simple.rs.  A caller holds one RGBA byte buffer with declared       *)
(* dimensions and invokes the public entry points on it; every entry       *)
(* point is one action that runs the whole handler and records what it     *)
(* returned.                                                               *)
(*                                                                         *)
(* u32 arithmetic is modelled at WordBits bits (TLC integers cannot hold   *)
(* 2^32): a u32 operation whose mathematical result leaves 0..U32-1        *)
(* panics when the build has overflow checks (debug profile) and wraps     *)
(* modulo U32 otherwise (release profile).  u8 casts keep their real       *)
(* width.  Floating-point ratios are kept as exact fractions <<num, den>>. *)
(***************************************************************************)
EXTENDS Integers, Sequences, FiniteSets, TLC

VARIABLES
    pixels,           \* the caller's buffer: a sequence of bytes
    width,            \* declared width  (u32)
    height,           \* declared height (u32)
    overflow_checks,  \* TRUE: debug profile (overflow panics); FALSE: release (wraps)
    rgb,              \* one colour triple handed to the pixel classifiers
    call,             \* the entry point invoked last ("none" before the first call)
    arg,              \* the buffer passed to that call
    threshold,        \* the padding passed to that call (auto_clean_edges only)
    chain,            \* how many cleanEdges outputs in a row were fed back as input
    chest_threshold,  \* HarvestScanner.chest_threshold, set by new()
    ret               \* what the call returned: a record with a status field

vars == <<pixels, width, height, overflow_checks, rgb, call, arg, threshold, chain,
          chest_threshold, ret>>

---------------------------------------------------------------------------
(* Bounds of the model *)

MaxW == 4
MaxH == 3
MaxCells == 4
MaxPainted == 1
MaxThreshold == 1
MaxChain == 1
MaxSpriteW == 8
MaxSpriteH == 4
MaxStripes == 4
WordBits == 8

(* Machine integers *)

U32 == 2^WordBits
U8 == 256

Wrap(v) == v % U32
Overflows(v) == v < 0 \/ v >= U32

Min2(a, b) == IF a <= b THEN a ELSE b
Max2(a, b) == IF a >= b THEN a ELSE b
Abs(a) == IF a < 0 THEN 0 - a ELSE a

(* Exact fractions <<num, den>>, den > 0 *)

Frac(n, d) == <<n, d>>
FracLess(p, q) == p[1] * q[2] < q[1] * p[2]
FracEq(p, q) == p[1] * q[2] = q[1] * p[2]
FracLeq(p, q) == p[1] * q[2] <= q[1] * p[2]

---------------------------------------------------------------------------
(* The byte buffer: chunks_exact(4) yields Len \div 4 whole RGBA chunks and *)
(* ignores a trailing partial chunk.                                        *)

NumChunks(buf) == Len(buf) \div 4
ChunkR(buf, i) == buf[4 * i + 1]
ChunkG(buf, i) == buf[4 * i + 2]
ChunkB(buf, i) == buf[4 * i + 3]
ChunkA(buf, i) == buf[4 * i + 4]

IsOpaque(buf, i) == ChunkA(buf, i) > 0

(* The running min/max of x and y over the opaque pixels.  The same loop   *)
(* is written out in calculate_alpha_bounding_box, analyze_sprite_internal, *)
(* auto_clean_edges_internal and both functions of lib_simple.rs.           *)
(* i % width panics (division by zero) when width = 0 and a chunk exists.   *)

RECURSIVE bounds_loop(_, _, _, _)
bounds_loop(buf, w, i, acc) ==
    IF i >= NumChunks(buf) THEN acc
    ELSE LET x == i % w
             y == i \div w
         IN  bounds_loop(buf, w, i + 1,
                 IF IsOpaque(buf, i)
                 THEN [min_x |-> Min2(acc.min_x, x), min_y |-> Min2(acc.min_y, y),
                       max_x |-> Max2(acc.max_x, x), max_y |-> Max2(acc.max_y, y)]
                 ELSE acc)

content_bounds(buf, w, h) ==
    IF w = 0 /\ NumChunks(buf) > 0
    THEN [status |-> "panic"]
    ELSE [status |-> "ok",
          b |-> bounds_loop(buf, w, 0, [min_x |-> w, min_y |-> h, max_x |-> 0, max_y |-> 0])]

(* lib_complex.rs: (x, y, width, height) of the alpha bounding box *)

(* faulty variant: the empty case is not guarded *)
bbox_of_unguarded(b) ==
    <<b.min_x, b.min_y, Wrap(b.max_x - b.min_x + 1), Wrap(b.max_y - b.min_y + 1)>>

(* faulty variant: the extent is max - min, one short *)
bbox_of_exclusive(b) ==
    LET bbox_width == IF b.max_x >= b.min_x THEN b.max_x - b.min_x ELSE 0
        bbox_height == IF b.max_y >= b.min_y THEN b.max_y - b.min_y ELSE 0
    IN  <<b.min_x, b.min_y, bbox_width, bbox_height>>

bbox_of(b) ==
    LET bbox_width == IF b.max_x >= b.min_x THEN b.max_x - b.min_x + 1 ELSE 0
        bbox_height == IF b.max_y >= b.min_y THEN b.max_y - b.min_y + 1 ELSE 0
    IN  <<b.min_x, b.min_y, bbox_width, bbox_height>>

calculate_alpha_bounding_box(buf, w, h) ==
    LET cb == content_bounds(buf, w, h)
    IN  IF cb.status = "panic" THEN [status |-> "panic"]
        ELSE [status |-> "ok", abb |-> bbox_of(cb.b)]

---------------------------------------------------------------------------
(* Pixel colour classifier, full variant (lib_complex.rs).  gray_variance   *)
(* is computed in i32 and cast to u8, which keeps the low 8 bits.           *)

Buckets == {"wood", "stone", "grass", "water", "metal", "glass", "organic", "other"}

gray_variance_u8(r, g, b) == (Abs(r - g) + Abs(g - b)) % U8

classify_color(r, g, b) ==
    LET gray_variance == gray_variance_u8(r, g, b)
    IN  IF (100 <= r /\ r <= 150) /\ (50 <= g /\ g <= 100) /\ (20 <= b /\ b <= 60)
        THEN "wood"
        ELSE IF gray_variance < 30 THEN "stone"
        ELSE IF g > r /\ g > b /\ g > 100 THEN "grass"
        ELSE IF b > 150 /\ b > r /\ b > g THEN "water"
        ELSE IF (r > 200 \/ g > 200 \/ b > 200) /\ gray_variance > 50 THEN "metal"
        ELSE IF (r > 180 /\ g > 180 /\ b > 200) \/ (r > 200 /\ g > 200 /\ b > 200)
        THEN "glass"
        ELSE IF (r > 100 /\ g > 80 /\ b < 100) \/ (r > 150 /\ g < 100 /\ b < 100)
        THEN "organic"
        ELSE "other"

(* Reduced variant (lib_simple.rs): stops after the water rule *)

(* faulty variant: the stone rule tests the sum before the cast to u8 *)
simple_classify_color_uncast(r, g, b) ==
    LET gray_variance == Abs(r - g) + Abs(g - b)
    IN  IF (100 <= r /\ r <= 150) /\ (50 <= g /\ g <= 100) /\ (20 <= b /\ b <= 60)
        THEN "wood"
        ELSE IF gray_variance < 30 THEN "stone"
        ELSE IF g > r /\ g > b /\ g > 100 THEN "grass"
        ELSE IF b > 150 /\ b > r /\ b > g THEN "water"
        ELSE "other"

simple_classify_color(r, g, b) ==
    LET gray_variance == gray_variance_u8(r, g, b)
    IN  IF (100 <= r /\ r <= 150) /\ (50 <= g /\ g <= 100) /\ (20 <= b /\ b <= 60)
        THEN "wood"
        ELSE IF gray_variance < 30 THEN "stone"
        ELSE IF g > r /\ g > b /\ g > 100 THEN "grass"
        ELSE IF b > 150 /\ b > r /\ b > g THEN "water"
        ELSE "other"

---------------------------------------------------------------------------
(* Colour histogram: per-bucket counts over the opaque pixels, then each    *)
(* count divided by the number of opaque pixels.  A bucket is a key only    *)
(* when it was counted at least once; no key at all when nothing is opaque. *)

(* faulty variant: the alpha test is missing, every pixel is counted *)
RECURSIVE count_loop_all(_, _, _, _)
count_loop_all(buf, full, i, acc) ==
    IF i >= NumChunks(buf) THEN acc
    ELSE count_loop_all(buf, full, i + 1,
             LET color_class == classify_color(ChunkR(buf, i), ChunkG(buf, i), ChunkB(buf, i))
             IN  [total_pixels |-> acc.total_pixels + 1,
                  color_counts |-> [acc.color_counts EXCEPT ![color_class] = @ + 1]])

RECURSIVE count_loop(_, _, _, _)
count_loop(buf, full, i, acc) ==
    IF i >= NumChunks(buf) THEN acc
    ELSE count_loop(buf, full, i + 1,
             IF IsOpaque(buf, i)
             THEN LET color_class ==
                          IF full
                          THEN classify_color(ChunkR(buf, i), ChunkG(buf, i), ChunkB(buf, i))
                          ELSE simple_classify_color(ChunkR(buf, i), ChunkG(buf, i), ChunkB(buf, i))
                  IN  [total_pixels |-> acc.total_pixels + 1,
                       color_counts |-> [acc.color_counts EXCEPT ![color_class] = @ + 1]]
             ELSE acc)

color_counts_of(buf, full) ==
    count_loop(buf, full, 0, [total_pixels |-> 0, color_counts |-> [c \in Buckets |-> 0]])

histogram_of(cnt) ==
    IF cnt.total_pixels > 0
    THEN [c \in {k \in Buckets : cnt.color_counts[k] > 0} |->
              Frac(cnt.color_counts[c], cnt.total_pixels)]
    ELSE [c \in {} |-> Frac(0, 1)]

calculate_color_histogram(buf, w, h) == histogram_of(color_counts_of(buf, TRUE))

---------------------------------------------------------------------------
(* Edge density (lib_complex.rs).  Luma is 0.299 R + 0.587 G + 0.114 B      *)
(* truncated to u8 (a transparent pixel is 0); the model computes it in     *)
(* thousandths, which agrees with the f32 computation for every colour of   *)
(* the palette (none is within 0.01 of an integer boundary).                *)

luma(r, g, b) == (299 * r + 587 * g + 114 * b) \div 1000

gray_plane(buf, size) ==
    [i \in 0..(size - 1) |->
        IF i < NumChunks(buf) /\ IsOpaque(buf, i)
        THEN luma(ChunkR(buf, i), ChunkG(buf, i), ChunkB(buf, i))
        ELSE 0]

sobel_x(gray, w, x, y) ==
    LET tl == gray[(y - 1) * w + (x - 1)]
        tr == gray[(y - 1) * w + (x + 1)]
        ml == gray[y * w + (x - 1)]
        mr == gray[y * w + (x + 1)]
        bl == gray[(y + 1) * w + (x - 1)]
        br == gray[(y + 1) * w + (x + 1)]
    IN  Abs(0 - tl + tr - 2 * ml + 2 * mr - bl + br)

sobel_y(gray, w, x, y) ==
    LET tl == gray[(y - 1) * w + (x - 1)]
        tm == gray[(y - 1) * w + x]
        tr == gray[(y - 1) * w + (x + 1)]
        bl == gray[(y + 1) * w + (x - 1)]
        bm == gray[(y + 1) * w + x]
        br == gray[(y + 1) * w + (x + 1)]
    IN  Abs(0 - tl - 2 * tm - tr + bl + 2 * bm + br)

(* let edge_magnitude = (sobel_x + sobel_y) as u8 *)
edge_magnitude(gray, w, x, y) == (sobel_x(gray, w, x, y) + sobel_y(gray, w, x, y)) % U8

(* for y in 1..height-1 / for x in 1..width-1: the subtraction is on u32.   *)
(* With the operand 0 it panics under overflow checks and wraps to U32 - 1  *)
(* otherwise.                                                               *)
loop_range(n) == IF n = 0 THEN 1..(U32 - 2) ELSE 1..(n - 2)

calculate_edge_density(buf, w, h, checks) ==
    LET area == w * h
        size == Wrap(area)
        ys == loop_range(h)
        xs == loop_range(w)
    IN  IF Overflows(area) /\ checks THEN [status |-> "panic"]
        ELSE IF NumChunks(buf) > size THEN [status |-> "panic"]
        ELSE IF h = 0 /\ checks THEN [status |-> "panic"]
        ELSE IF ys # {} /\ w = 0 /\ checks THEN [status |-> "panic"]
        ELSE IF \E y \in ys, x \in xs : (y + 1) * w + (x + 1) >= size
        THEN [status |-> "panic"]
        ELSE LET gray == gray_plane(buf, size)
                 edge_count == Cardinality({p \in xs \X ys :
                                   edge_magnitude(gray, w, p[1], p[2]) > 30})
                 total_pixels == size
             IN  [status |-> "ok",
                  gray |-> gray,
                  edge_count |-> edge_count,
                  density |-> IF total_pixels > 0 THEN Frac(edge_count, total_pixels)
                              ELSE Frac(0, 1)]

---------------------------------------------------------------------------
(* Material classification (lib_complex.rs).  color_profile is a HashMap:   *)
(* the loop visits its keys in an order the program does not control, given *)
(* here as the sequence "order" (a permutation of the keys).                *)

RECURSIVE dominant_loop(_, _, _, _)
dominant_loop(color_profile, order, i, acc) ==
    IF i > Len(order) THEN acc
    ELSE LET color == order[i]
             ratio == color_profile[color]
         IN  dominant_loop(color_profile, order, i + 1,
                 IF FracLess(acc.max_ratio, ratio)
                 THEN [max_ratio |-> ratio, dominant_color |-> color]
                 ELSE acc)

dominant_of(color_profile, order) ==
    dominant_loop(color_profile, order, 1,
                  [max_ratio |-> Frac(0, 1), dominant_color |-> "unknown"]).dominant_color

(* The result is MaterialType::to_string() of the chosen variant *)
classify_material(color_profile, edge_density, order) ==
    LET dominant_color == dominant_of(color_profile, order)
    IN  IF dominant_color = "water"
        THEN (IF FracLess(Frac(15, 100), edge_density) THEN "glass" ELSE "water")
        ELSE IF dominant_color \in {"wood", "stone", "grass", "metal", "glass", "organic"}
        THEN dominant_color
        ELSE "unknown"

FracAdd(p, q) == Frac(p[1] * q[2] + q[1] * p[2], p[2] * q[2])
FracMin(p, q) == IF FracLess(q, p) THEN q ELSE p

(* faulty variant: a label that is no key of the histogram gets confidence 0 *)
calculate_confidence_zero_default(color_profile, material_type) ==
    IF material_type \in DOMAIN color_profile
    THEN LET base_confidence == color_profile[material_type]
             confidence_boost ==
                 IF material_type \in {"wood", "stone", "grass", "water"} THEN Frac(2, 10)
                 ELSE IF material_type \in {"metal", "glass"} THEN Frac(1, 10)
                 ELSE Frac(0, 10)
         IN  FracMin(FracAdd(base_confidence, confidence_boost), Frac(1, 1))
    ELSE Frac(0, 10)

(* faulty variant: the sum is not clamped with min(1.0) *)
calculate_confidence_unclamped(color_profile, material_type) ==
    IF material_type \in DOMAIN color_profile
    THEN LET base_confidence == color_profile[material_type]
             confidence_boost ==
                 IF material_type \in {"wood", "stone", "grass", "water"} THEN Frac(2, 10)
                 ELSE IF material_type \in {"metal", "glass"} THEN Frac(1, 10)
                 ELSE Frac(0, 10)
         IN  FracAdd(base_confidence, confidence_boost)
    ELSE Frac(5, 10)

calculate_confidence(color_profile, material_type) ==
    IF material_type \in DOMAIN color_profile
    THEN LET base_confidence == color_profile[material_type]
             confidence_boost ==
                 IF material_type \in {"wood", "stone", "grass", "water"} THEN Frac(2, 10)
                 ELSE IF material_type \in {"metal", "glass"} THEN Frac(1, 10)
                 ELSE Frac(0, 10)
         IN  FracMin(FracAdd(base_confidence, confidence_boost), Frac(1, 1))
    ELSE Frac(5, 10)

RECURSIVE sum_loop(_, _, _)
sum_loop(buf, i, acc) ==
    IF i >= NumChunks(buf) THEN acc
    ELSE sum_loop(buf, i + 1,
             IF IsOpaque(buf, i)
             THEN [r_sum |-> acc.r_sum + ChunkR(buf, i), g_sum |-> acc.g_sum + ChunkG(buf, i),
                   b_sum |-> acc.b_sum + ChunkB(buf, i), count |-> acc.count + 1]
             ELSE acc)

get_dominant_color(buf, w, h) ==
    LET s == sum_loop(buf, 0, [r_sum |-> 0, g_sum |-> 0, b_sum |-> 0, count |-> 0])
    IN  IF s.count > 0
        THEN <<(s.r_sum \div s.count) % U8, (s.g_sum \div s.count) % U8,
               (s.b_sum \div s.count) % U8>>
        ELSE <<0, 0, 0>>

calculate_transparency_ratio(buf, w, h) ==
    LET total_count == NumChunks(buf)
        transparent_count == Cardinality({i \in 0..(total_count - 1) : ChunkA(buf, i) = 0})
    IN  IF total_count > 0 THEN Frac(transparent_count, total_count) ELSE Frac(0, 1)

material_triage_internal(buf, w, h, checks, order) ==
    LET abb == calculate_alpha_bounding_box(buf, w, h)
        color_profile == calculate_color_histogram(buf, w, h)
        ed == calculate_edge_density(buf, w, h, checks)
    IN  IF abb.status = "panic" \/ ed.status = "panic" THEN [status |-> "panic"]
        ELSE LET material_type == classify_material(color_profile, ed.density, order)
             IN  [status |-> "ok",
                  alpha_bounding_box |-> abb.abb,
                  material_type |-> material_type,
                  confidence |-> calculate_confidence(color_profile, material_type),
                  color_profile |-> color_profile,
                  edge_density |-> ed.density,
                  is_object |-> FracLess(Frac(2, 10), ed.density),
                  dominant_color |-> get_dominant_color(buf, w, h),
                  transparency_ratio |-> calculate_transparency_ratio(buf, w, h),
                  dominant_bucket |-> dominant_of(color_profile, order)]

---------------------------------------------------------------------------
(* Buffer validation, written out at the head of every validating entry     *)
(* point: pixels.len() != (width * height * 4) as usize, the product being  *)
(* computed on u32.                                                         *)

validate(buf, w, h, checks) ==
    LET product == w * h * 4
    IN  IF Overflows(product) /\ checks THEN "panic"
        ELSE IF Len(buf) # Wrap(product) THEN "err"
        ELSE "ok"

---------------------------------------------------------------------------
(* Sprite triage (lib.rs) *)

OpaqueChunks(buf) == {i \in 0..(NumChunks(buf) - 1) : IsOpaque(buf, i)}

is_brown_gold(r, g, b) ==
    \/ (80 <= r /\ r <= 180 /\ 40 <= g /\ g <= 140 /\ b <= 80)
    \/ (160 <= r /\ r <= 255 /\ 100 <= g /\ g <= 200 /\ b <= 100)
    \/ (200 <= r /\ r <= 255 /\ 180 <= g /\ g <= 220 /\ b <= 100)

is_green(r, g, b) == g > r /\ g > b

is_gray(r, g, b) == Abs(r - g) < 40 /\ Abs(g - b) < 40

(* faulty variant: the division is not guarded; 0.0 / 0.0 is NaN, and no    *)
(* comparison with NaN holds (nor does one with <<0, 0>>)                   *)
ratio_of_unguarded(n, total_pixels) == Frac(n, total_pixels)

ratio_of(n, total_pixels) == IF total_pixels > 0 THEN Frac(n, total_pixels) ELSE Frac(0, 1)

analyze_sprite_internal(buf, w, h) ==
    LET cb == content_bounds(buf, w, h)
        opaque == OpaqueChunks(buf)
        total_pixels == Cardinality(opaque)
        colors == {<<ChunkR(buf, i), ChunkG(buf, i), ChunkB(buf, i)>> : i \in opaque}
        brown_gold_pixels ==
            Cardinality({i \in opaque : is_brown_gold(ChunkR(buf, i), ChunkG(buf, i), ChunkB(buf, i))})
        green_pixels ==
            Cardinality({i \in opaque : is_green(ChunkR(buf, i), ChunkG(buf, i), ChunkB(buf, i))})
        gray_pixels ==
            Cardinality({i \in opaque : is_gray(ChunkR(buf, i), ChunkG(buf, i), ChunkB(buf, i))})
        chest_probability == ratio_of(brown_gold_pixels, total_pixels)
        green_ratio == ratio_of(green_pixels, total_pixels)
        gray_ratio == ratio_of(gray_pixels, total_pixels)
        color_diversity == ratio_of(Cardinality(colors), total_pixels)
        \* width as f32 / height as f32: infinite or NaN when height = 0, and
        \* then no comparison below holds
        aspect_in_range == h > 0 /\ h <= 2 * w /\ w <= 2 * h
    IN  IF cb.status = "panic" THEN [status |-> "panic"]
        ELSE [status |-> "ok",
              chest_probability |-> chest_probability,
              content_bounds |-> <<cb.b.min_x, cb.b.min_y, cb.b.max_x, cb.b.max_y>>,
              color_diversity |-> color_diversity,
              green_ratio |-> green_ratio,
              gray_ratio |-> gray_ratio,
              brown_gold_ratio |-> chest_probability,
              total_pixels |-> total_pixels,
              distinct_colors |-> Cardinality(colors),
              is_character |-> total_pixels > 20 /\ aspect_in_range /\ Cardinality(colors) > 3,
              is_decoration |-> \/ FracLess(Frac(5, 100), color_diversity)
                                \/ FracLess(Frac(2, 10), green_ratio)
                                \/ FracLess(Frac(3, 10), gray_ratio),
              is_material |-> FracLess(color_diversity, Frac(1, 10))]

(* Edge cleaner (lib.rs).  min is moved with saturating_sub; max is moved   *)
(* with a plain u32 addition and clamped with width - 1 / height - 1.       *)

(* faulty variant: the padding is not added on the max side *)
padded_max_unpadded(m, t, n) == Min2(Wrap(m), Wrap(n - 1))

padded_max(m, t, n) == Min2(Wrap(m + t), Wrap(n - 1))

auto_clean_edges_internal(buf, w, h, t, checks) ==
    LET cb == content_bounds(buf, w, h)
    IN  IF cb.status = "panic" THEN [status |-> "panic"]
        ELSE
        LET min_x == Max2(cb.b.min_x - t, 0)
            min_y == Max2(cb.b.min_y - t, 0)
            max_x == padded_max(cb.b.max_x, t, w)
            max_y == padded_max(cb.b.max_y, t, h)
            outside == {p \in (0..(w - 1)) \X (0..(h - 1)) :
                           p[1] < min_x \/ p[1] > max_x \/ p[2] < min_y \/ p[2] > max_y}
            cleared == {idx \in {Wrap((p[2] * w + p[1]) * 4) : p \in outside} :
                           idx + 3 < Len(buf)}
        IN  IF checks /\ (\/ Overflows(cb.b.max_x + t) \/ Overflows(w - 1)
                          \/ Overflows(cb.b.max_y + t) \/ Overflows(h - 1)
                          \/ \E p \in outside : Overflows((p[2] * w + p[1]) * 4))
            THEN [status |-> "panic"]
            ELSE [status |-> "ok",
                  box |-> <<min_x, min_y, max_x, max_y>>,
                  cleaned |-> [k \in 1..Len(buf) |->
                                  IF 4 * ((k - 1) \div 4) \in cleared THEN 0 ELSE buf[k]]]

---------------------------------------------------------------------------
(* Reduced engine (lib_simple.rs) *)

simple_classify_material(color_profile, order) == dominant_of(color_profile, order)

simple_calculate_confidence(color_profile, material_type) ==
    IF material_type \in DOMAIN color_profile
    THEN LET base_confidence == color_profile[material_type]
             confidence_boost ==
                 IF material_type \in {"wood", "stone", "grass", "water"} THEN Frac(2, 10)
                 ELSE Frac(0, 10)
         IN  FracMin(FracAdd(base_confidence, confidence_boost), Frac(1, 1))
    ELSE Frac(5, 10)

simple_analyze(buf, w, h, order) ==
    LET cb == content_bounds(buf, w, h)
        cnt == color_counts_of(buf, FALSE)
        color_profile == histogram_of(cnt)
        material_type == simple_classify_material(color_profile, order)
        area == Wrap(w * h)
    IN  IF cb.status = "panic" THEN [status |-> "panic"]
        ELSE [status |-> "ok",
              alpha_bounding_box |-> bbox_of(cb.b),
              material_type |-> material_type,
              confidence |-> simple_calculate_confidence(color_profile, material_type),
              color_profile |-> color_profile,
              edge_density |-> Frac(1, 10),
              is_object |-> FALSE,
              dominant_color |-> get_dominant_color(buf, w, h),
              transparency_ratio |->
                  IF cnt.total_pixels > 0 /\ area > 0
                  THEN Frac(Wrap(area - cnt.total_pixels), area)
                  ELSE Frac(1, 1)]

---------------------------------------------------------------------------
(* The caller's inputs *)

T1    == <<0, 0, 255, 0>>        \* transparent, colour channels set
Water == <<0, 0, 255, 255>>      \* bucket water, luma 29
Glass == <<240, 205, 205, 255>>  \* bucket glass, luma 215
Stone == <<70, 80, 90, 255>>     \* bucket stone, luma 78
Other == <<60, 0, 60, 1>>        \* bucket other, luma 24, alpha 1
Wood  == <<120, 80, 40, 255>>    \* brown/gold
Grass == <<0, 160, 0, 255>>      \* green

Flatten(pxs) == [k \in 1..(4 * Len(pxs)) |-> pxs[((k - 1) \div 4) + 1][((k - 1) % 4) + 1]]

(* Images of n pixels: every image over the palette when n <= MaxCells;    *)
(* for a larger n, one background colour with at most MaxPainted pixels     *)
(* painted over it (a later stroke covers an earlier one; position 0: no    *)
(* stroke).                                                                 *)
Painted(n, bg, strokes) ==
    [i \in 1..n |->
        LET hits == {k \in 1..MaxPainted : strokes[k][1] = i}
        IN  IF hits = {} THEN bg
            ELSE strokes[CHOOSE k \in hits : \A j \in hits : j <= k][2]]

ImagesOf(n, palette) ==
    IF n <= MaxCells
    THEN {Flatten(pxs) : pxs \in [1..n -> palette]}
    ELSE {Flatten(Painted(n, bg, strokes)) :
             bg \in palette, strokes \in [1..MaxPainted -> (0..n) \X palette]}

(* Well-formed inputs: the buffer holds width * height pixels *)
ValidInputs(palette) ==
    UNION {{[pixels |-> img, width |-> w, height |-> h] : img \in ImagesOf(w * h, palette)} :
              w \in 0..MaxW, h \in 0..MaxH}

(* Sprites of more than 20 pixels, MaxSpriteW wide and up to MaxSpriteH     *)
(* high or the other way round: a sequence of MaxStripes colours repeated   *)
(* over the pixels in row-major order.                                      *)
SpriteDims ==
    LET wide == {d \in {MaxSpriteW} \X (1..MaxSpriteH) : d[1] * d[2] > 20}
    IN  wide \cup {<<d[2], d[1]>> : d \in wide}

Striped(n, stripes) == [i \in 1..n |-> stripes[((i - 1) % MaxStripes) + 1]]

SpriteInputs(palette) ==
    {[pixels |-> Flatten(Striped(d[1] * d[2], stripes)), width |-> d[1], height |-> d[2]] :
        d \in SpriteDims, stripes \in [1..MaxStripes -> palette]}

(* Dimensions whose product times 4 leaves the u32 range *)
OverflowDims == {<<U32 \div 4, 1>>, <<(U32 \div 4) + 1, 1>>, <<U32 \div 8, 2>>}

(* Other inputs: a one-colour buffer of any small length, whole chunks or   *)
(* with one trailing byte, under any declared dimensions.                   *)
UniformBuffers ==
    {Flatten([i \in 1..n |-> c]) \o tail :
        n \in 0..MaxW, c \in {T1, Stone}, tail \in {<<>>, <<7>>}}

OtherInputs ==
    {[pixels |-> buf, width |-> d[1], height |-> d[2]] :
        buf \in UniformBuffers, d \in ((0..MaxW) \X (0..MaxH)) \cup OverflowDims}

Thresholds == (0..MaxThreshold) \cup {U32 - 1}

IterationOrders(S) ==
    {order \in [1..Cardinality(S) -> S] : \A i, j \in 1..Cardinality(S) :
        order[i] = order[j] => i = j}

NoRet == [status |-> "none"]

(* A behaviour is one session of a caller: it holds one input, invokes one  *)
(* entry point on it, may repeat a material analysis on the same input and  *)
(* may feed a cleaned buffer back to the cleaner.  The engines keep no      *)
(* state between calls.                                                     *)
(* HarvestScanner::new: chest_threshold.unwrap_or(0.3) *)
DefaultChestThreshold == Frac(3, 10)

InitConfigured(inputs, chest_thresholds) ==
    /\ \E inp \in inputs :
          /\ pixels = inp.pixels
          /\ width = inp.width
          /\ height = inp.height
    /\ chest_threshold \in chest_thresholds
    /\ overflow_checks \in BOOLEAN
    /\ rgb = <<0, 0, 0>>
    /\ call = "none"
    /\ arg = pixels
    /\ threshold = 0
    /\ chain = 0
    /\ ret = NoRet

(* An engine constructed with the default configuration *)
InitWith(inputs) == InitConfigured(inputs, {DefaultChestThreshold})

(* Any caller: well-formed and malformed inputs *)
Init == InitWith(ValidInputs({T1, Stone}) \cup OtherInputs)

---------------------------------------------------------------------------
(* Entry points.  Each returns Err(ValueError) "err" on a failed validation, *)
(* "panic" when the handler panics, and its result otherwise.                *)

Returns(name, buf, t, n, r) ==
    /\ call' = name
    /\ arg' = buf
    /\ threshold' = t
    /\ chain' = n
    /\ ret' = r
    /\ UNCHANGED <<pixels, width, height, overflow_checks, rgb, chest_threshold>>

(* lib.rs: the SpriteAnalysis returned by analyze_sprite, the fields of the  *)
(* internal analysis and is_chest                                            *)
SpriteAnalysis(analysis, configured_threshold) ==
    IF analysis.status = "panic" THEN analysis
    ELSE analysis @@
         [is_chest |-> FracLess(configured_threshold, analysis.chest_probability)]

HarvestScanner_analyze_sprite ==
    /\ call = "none"
    /\ LET v == validate(pixels, width, height, overflow_checks)
       IN  Returns("HarvestScanner.analyze_sprite", pixels, 0, 0,
               IF v # "ok" THEN [status |-> v]
               ELSE SpriteAnalysis(analyze_sprite_internal(pixels, width, height),
                                   chest_threshold))

HarvestScanner_auto_clean_edges ==
    \E t \in Thresholds, feedback \in BOOLEAN :
        /\ IF feedback
           THEN /\ call = "HarvestScanner.auto_clean_edges"
                /\ ret.status = "ok"
                /\ chain < MaxChain
                /\ t = threshold
           ELSE call = "none"
        /\ LET buf == IF feedback THEN ret.cleaned ELSE pixels
               v == validate(buf, width, height, overflow_checks)
           IN  Returns("HarvestScanner.auto_clean_edges", buf, t,
                   IF feedback THEN chain + 1 ELSE 0,
                   IF v # "ok" THEN [status |-> v]
                   ELSE auto_clean_edges_internal(buf, width, height, t, overflow_checks))

(* lib_complex.rs *)
MaterialTriageEngine_analyze_sprite ==
    /\ call \in {"none", "MaterialTriageEngine.analyze_sprite"}
    /\ \E order \in IterationOrders(DOMAIN calculate_color_histogram(pixels, width, height)) :
          LET v == validate(pixels, width, height, overflow_checks)
          IN  Returns("MaterialTriageEngine.analyze_sprite", pixels, 0, 0,
                  IF v # "ok" THEN [status |-> v]
                  ELSE material_triage_internal(pixels, width, height, overflow_checks, order))

MaterialTriageEngine_get_alpha_bounding_box ==
    /\ call = "none"
    /\ Returns("MaterialTriageEngine.get_alpha_bounding_box", pixels, 0, 0,
               calculate_alpha_bounding_box(pixels, width, height))

MaterialTriageEngine_get_color_histogram ==
    /\ call = "none"
    /\ Returns("MaterialTriageEngine.get_color_histogram", pixels, 0, 0,
               [status |-> "ok",
                histogram |-> calculate_color_histogram(pixels, width, height),
                counts |-> color_counts_of(pixels, TRUE)])

MaterialTriageEngine_get_edge_density ==
    /\ call = "none"
    /\ Returns("MaterialTriageEngine.get_edge_density", pixels, 0, 0,
               calculate_edge_density(pixels, width, height, overflow_checks))

(* lib_simple.rs *)
Simple_analyze_sprite ==
    /\ call \in {"none", "Simple.analyze_sprite"}
    /\ \E order \in IterationOrders(DOMAIN histogram_of(color_counts_of(pixels, FALSE))) :
          LET v == validate(pixels, width, height, overflow_checks)
          IN  Returns("Simple.analyze_sprite", pixels, 0, 0,
                  IF v # "ok" THEN [status |-> v]
                  ELSE simple_analyze(pixels, width, height, order))

Simple_get_alpha_bounding_box ==
    /\ call = "none"
    /\ LET v == validate(pixels, width, height, overflow_checks)
       IN  Returns("Simple.get_alpha_bounding_box", pixels, 0, 0,
               IF v # "ok" THEN [status |-> v]
               ELSE calculate_alpha_bounding_box(pixels, width, height))

Next ==
    \/ HarvestScanner_analyze_sprite
    \/ HarvestScanner_auto_clean_edges
    \/ MaterialTriageEngine_analyze_sprite
    \/ MaterialTriageEngine_get_alpha_bounding_box
    \/ MaterialTriageEngine_get_color_histogram
    \/ MaterialTriageEngine_get_edge_density
    \/ Simple_analyze_sprite
    \/ Simple_get_alpha_bounding_box

Spec == Init /\ [][Next]_vars

(* The edge cleaner on well-formed images *)
InitClean == InitWith(ValidInputs({T1, Stone, Other}))
NextClean == HarvestScanner_auto_clean_edges
SpecClean == InitClean /\ [][NextClean]_vars

(* The bounding box and the histogram on well-formed images *)
InitBox == InitWith(ValidInputs({T1, Stone, Other}))
NextBox ==
    \/ MaterialTriageEngine_get_alpha_bounding_box
    \/ MaterialTriageEngine_get_color_histogram
    \/ Simple_get_alpha_bounding_box
SpecBox == InitBox /\ [][NextBox]_vars

(* The analysis passes on well-formed images *)
InitMaterial == InitWith(ValidInputs({T1, Water, Glass, Stone, Other}))
NextMaterial ==
    \/ MaterialTriageEngine_analyze_sprite
    \/ MaterialTriageEngine_get_alpha_bounding_box
    \/ MaterialTriageEngine_get_color_histogram
    \/ MaterialTriageEngine_get_edge_density
    \/ Simple_analyze_sprite
    \/ Simple_get_alpha_bounding_box
SpecMaterial == InitMaterial /\ [][NextMaterial]_vars

(* The sprite triage on well-formed images, the scanner being constructed   *)
(* with chest_threshold None (the default), Some(0.25) or Some(0.2)         *)
ChestThresholds == {DefaultChestThreshold, Frac(1, 4), Frac(2, 10)}

InitSprite ==
    InitConfigured(ValidInputs({T1, Wood}) \cup
                   SpriteInputs({T1, Stone, Water, Wood, Grass}),
                   ChestThresholds)
NextSprite == HarvestScanner_analyze_sprite
SpecSprite == InitSprite /\ [][NextSprite]_vars

(* The two material analyses on well-formed images *)
InitTriage == InitWith(ValidInputs({T1, Stone, Glass}))
NextTriage ==
    \/ MaterialTriageEngine_analyze_sprite
    \/ Simple_analyze_sprite
SpecTriage == InitTriage /\ [][NextTriage]_vars

(* The pixel classifiers on single colours *)
Levels == {0, 20, 30, 50, 60, 80, 100, 101, 128, 150, 151, 180, 181, 200, 201, 255}

InitColor ==
    /\ rgb \in Levels \X Levels \X Levels
    /\ pixels = <<>>
    /\ width = 0
    /\ height = 0
    /\ overflow_checks \in BOOLEAN
    /\ chest_threshold = DefaultChestThreshold
    /\ call = "none"
    /\ arg = <<>>
    /\ threshold = 0
    /\ chain = 0
    /\ ret = NoRet

MaterialTriageEngine_classify_color ==
    /\ call = "none"
    /\ Returns("MaterialTriageEngine.classify_color", <<>>, 0, 0,
               [status |-> "ok", label |-> classify_color(rgb[1], rgb[2], rgb[3])])

Simple_classify_color ==
    /\ call = "none"
    /\ Returns("Simple.classify_color", <<>>, 0, 0,
               [status |-> "ok", label |-> simple_classify_color(rgb[1], rgb[2], rgb[3])])

NextColor ==
    \/ MaterialTriageEngine_classify_color
    \/ Simple_classify_color
SpecColor == InitColor /\ [][NextColor]_vars

---------------------------------------------------------------------------
(* Vocabulary of the properties, defined on the input alone *)

IsValid(buf, w, h) == Len(buf) = w * h * 4

OpaqueXY(buf, w) == {<<i % w, i \div w>> : i \in OpaqueChunks(buf)}
SetMin(S) == CHOOSE m \in S : \A n \in S : m <= n
SetMax(S) == CHOOSE m \in S : \A n \in S : m >= n
OpaqueXs(buf, w) == {p[1] : p \in OpaqueXY(buf, w)}
OpaqueYs(buf, w) == {p[2] : p \in OpaqueXY(buf, w)}

PixelAt(buf, w, x, y) == SubSeq(buf, 4 * (y * w + x) + 1, 4 * (y * w + x) + 4)

EntryPoints ==
    {"HarvestScanner.analyze_sprite", "HarvestScanner.auto_clean_edges",
     "MaterialTriageEngine.analyze_sprite", "MaterialTriageEngine.get_alpha_bounding_box",
     "MaterialTriageEngine.get_color_histogram", "MaterialTriageEngine.get_edge_density",
     "Simple.analyze_sprite", "Simple.get_alpha_bounding_box"}

ValidatingEntryPoints ==
    {"HarvestScanner.analyze_sprite", "HarvestScanner.auto_clean_edges",
     "MaterialTriageEngine.analyze_sprite", "Simple.analyze_sprite",
     "Simple.get_alpha_bounding_box"}

---------------------------------------------------------------------------
(* C1: every public entry point compares the buffer length with             *)
(* width * height * 4 first and, when they differ, returns the dimension     *)
(* mismatch error without running any analysis pass.  (Stated for            *)
(* dimensions whose product stays in the u32 range; C8 is about the rest.)   *)

C1_EveryEntryPointValidates ==
    (/\ call \in EntryPoints
     /\ ~Overflows(width * height * 4)
     /\ ~IsValid(arg, width, height))
    => ret = [status |-> "err"]

(* C2: on a well-formed buffer with an opaque pixel and a padding t that     *)
(* does not overflow max_x + t or max_y + t, cleanEdges returns a buffer of  *)
(* the same length in which a pixel inside the padded, clamped bounding box  *)
(* is byte-identical to the input and every other pixel is four zero bytes.  *)

C2_Applies ==
    /\ call = "HarvestScanner.auto_clean_edges"
    /\ IsValid(arg, width, height)
    /\ OpaqueChunks(arg) # {}
    /\ ~Overflows(SetMax(OpaqueXs(arg, width)) + threshold)
    /\ ~Overflows(SetMax(OpaqueYs(arg, width)) + threshold)

C2_CleanEdgesKeepsPaddedBox ==
    C2_Applies =>
        LET lo_x == Max2(SetMin(OpaqueXs(arg, width)) - threshold, 0)
            hi_x == Min2(SetMax(OpaqueXs(arg, width)) + threshold, width - 1)
            lo_y == Max2(SetMin(OpaqueYs(arg, width)) - threshold, 0)
            hi_y == Min2(SetMax(OpaqueYs(arg, width)) + threshold, height - 1)
        IN  /\ ret.status = "ok"
            /\ Len(ret.cleaned) = Len(arg)
            /\ \A x \in 0..(width - 1), y \in 0..(height - 1) :
                  PixelAt(ret.cleaned, width, x, y) =
                      IF lo_x <= x /\ x <= hi_x /\ lo_y <= y /\ y <= hi_y
                      THEN PixelAt(arg, width, x, y)
                      ELSE <<0, 0, 0, 0>>

(* a padded box that is clamped at the image border on one side, keeps a     *)
(* transparent coloured pixel inside the padding and clears one outside      *)
C2_Witness ==
    /\ C2_Applies
    /\ threshold = 1
    /\ ret.status = "ok"
    /\ ret.cleaned # arg
    /\ SetMin(OpaqueXs(arg, width)) = 0
    /\ \E i \in 0..(NumChunks(arg) - 1) :
          ~IsOpaque(arg, i) /\ ChunkB(arg, i) # 0 /\ ChunkB(ret.cleaned, i) # 0

(* C3: cleanEdges is idempotent for a fixed threshold, whatever the          *)
(* threshold: cleaning the output again with the same threshold returns it   *)
(* unchanged.                                                                *)

C3_CleanEdgesIdempotent ==
    (/\ call = "HarvestScanner.auto_clean_edges"
     /\ chain >= 1)
    => (ret.status = "ok" /\ ret.cleaned = arg)

(* C4: on a well-formed image with width, height >= 1 and every alpha 0 the  *)
(* bounding box is (width, height, 0, 0) and the histogram is empty; with    *)
(* any opaque pixel the box has width >= 1 and height >= 1.                  *)

ReturnsBox ==
    call \in {"MaterialTriageEngine.get_alpha_bounding_box", "Simple.get_alpha_bounding_box",
              "MaterialTriageEngine.analyze_sprite", "Simple.analyze_sprite"}
ReturnsHistogram ==
    call \in {"MaterialTriageEngine.get_color_histogram",
              "MaterialTriageEngine.analyze_sprite", "Simple.analyze_sprite"}
ReturnedBox ==
    IF call \in {"MaterialTriageEngine.analyze_sprite", "Simple.analyze_sprite"}
    THEN ret.alpha_bounding_box ELSE ret.abb
ReturnedHistogram ==
    IF call = "MaterialTriageEngine.get_color_histogram"
    THEN ret.histogram ELSE ret.color_profile

C4_Applies == IsValid(arg, width, height) /\ width >= 1 /\ height >= 1

C4_TransparentImageIsEmpty ==
    /\ (C4_Applies /\ ReturnsBox) =>
          /\ ret.status = "ok"
          /\ OpaqueChunks(arg) = {} => ReturnedBox = <<width, height, 0, 0>>
          /\ OpaqueChunks(arg) # {} => (ReturnedBox[3] >= 1 /\ ReturnedBox[4] >= 1)
    /\ (C4_Applies /\ ReturnsHistogram) =>
          /\ ret.status = "ok"
          /\ OpaqueChunks(arg) = {} => DOMAIN ReturnedHistogram = {}

C4_Witness ==
    /\ C4_Applies
    /\ call = "MaterialTriageEngine.get_alpha_bounding_box"
    /\ OpaqueChunks(arg) = {}
    /\ width >= 2
    /\ ret.abb = <<width, height, 0, 0>>

(* C5: the alpha bounding box is tight.  With an opaque pixel, the box       *)
(* (x, y, w, h) lies in the image, holds every opaque pixel, and each of its *)
(* four extreme lines holds an opaque pixel.                                 *)

C5_Applies == C4_Applies /\ ReturnsBox /\ OpaqueChunks(arg) # {}

C5_BoundingBoxIsTight ==
    C5_Applies =>
        /\ ret.status = "ok"
        /\ LET x == ReturnedBox[1]
               y == ReturnedBox[2]
               w == ReturnedBox[3]
               h == ReturnedBox[4]
               opaque == OpaqueXY(arg, width)
           IN  /\ x + w <= width
               /\ y + h <= height
               /\ \A p \in opaque : /\ x <= p[1] /\ p[1] <= x + w - 1
                                    /\ y <= p[2] /\ p[2] <= y + h - 1
               /\ \E p \in opaque : p[1] = x
               /\ \E p \in opaque : p[1] = x + w - 1
               /\ \E p \in opaque : p[2] = y
               /\ \E p \in opaque : p[2] = y + h - 1

(* a box away from the origin that spans two opaque pixels apart, with a    *)
(* transparent pixel between them                                            *)
C5_Witness ==
    /\ C5_Applies
    /\ call = "MaterialTriageEngine.get_alpha_bounding_box"
    /\ ret.abb[1] >= 1
    /\ ret.abb[3] + ret.abb[4] >= 4
    /\ Cardinality(OpaqueChunks(arg)) = 2

(* C6: the full classifier returns the first matching rule in the order   *)
(* wood, stone, grass, water, metal, glass, organic, other, the stone rule   *)
(* being |r-g| + |g-b| < 30 and the metal rule using |r-g| + |g-b| > 50 on   *)
(* the exact integer sum (0..510).                                           *)

ExactVariance(r, g, b) == Abs(r - g) + Abs(g - b)

FirstMatchingRule(r, g, b) ==
    IF (100 <= r /\ r <= 150) /\ (50 <= g /\ g <= 100) /\ (20 <= b /\ b <= 60) THEN "wood"
    ELSE IF ExactVariance(r, g, b) < 30 THEN "stone"
    ELSE IF g > r /\ g > b /\ g > 100 THEN "grass"
    ELSE IF b > 150 /\ b > r /\ b > g THEN "water"
    ELSE IF (r > 200 \/ g > 200 \/ b > 200) /\ ExactVariance(r, g, b) > 50 THEN "metal"
    ELSE IF (r > 180 /\ g > 180 /\ b > 200) \/ (r > 200 /\ g > 200 /\ b > 200) THEN "glass"
    ELSE IF (r > 100 /\ g > 80 /\ b < 100) \/ (r > 150 /\ g < 100 /\ b < 100) THEN "organic"
    ELSE "other"

C6_ClassifierUsesExactVariance ==
    call = "MaterialTriageEngine.classify_color"
    => ret.label = FirstMatchingRule(rgb[1], rgb[2], rgb[3])

(* C7: on an image of at least 3 x 3 the edge count of get_edge_density is   *)
(* the number of interior pixels whose L1 Sobel magnitude |Gx| + |Gy| over   *)
(* the grayscale plane exceeds 30, and the density is that count over        *)
(* width * height, within [0, 1].                                            *)

ExactEdgeCount(gray, w, h) ==
    Cardinality({p \in (1..(w - 2)) \X (1..(h - 2)) :
                    sobel_x(gray, w, p[1], p[2]) + sobel_y(gray, w, p[1], p[2]) > 30})

C7_EdgeCountIsSobelCount ==
    (/\ call = "MaterialTriageEngine.get_edge_density"
     /\ IsValid(arg, width, height)
     /\ width >= 3 /\ height >= 3)
    => /\ ret.status = "ok"
       /\ ret.edge_count = ExactEdgeCount(ret.gray, width, height)
       /\ ret.density = Frac(ret.edge_count, width * height)
       /\ ret.edge_count <= width * height

(* C8: validation rejects every call whose buffer length differs from the    *)
(* mathematical product width * height * 4, also when that product leaves    *)
(* the u32 range.                                                            *)

C8_ValidationUsesExactProduct ==
    (/\ call \in ValidatingEntryPoints
     /\ ~IsValid(arg, width, height))
    => ret.status # "ok"

(* C9: the per-bucket counts of the histogram add up to the number of opaque *)
(* pixels, each opaque pixel being counted in the bucket of its colour; a    *)
(* bucket is a key only with a count > 0; every frequency is its count over  *)
(* the opaque count, in [0, 1]; the frequencies add up to 1 when a pixel is  *)
(* opaque and the histogram is empty when none is.                           *)

SumOver(f) ==
    f["wood"] + f["stone"] + f["grass"] + f["water"]
    + f["metal"] + f["glass"] + f["organic"] + f["other"]

C9_Applies ==
    call = "MaterialTriageEngine.get_color_histogram" /\ IsValid(arg, width, height)

C9_HistogramCountsOpaquePixels ==
    C9_Applies =>
        LET opaque == OpaqueChunks(arg)
            n == Cardinality(opaque)
            cc == ret.counts.color_counts
            hist == ret.histogram
        IN  /\ ret.status = "ok"
            /\ SumOver(cc) = n
            /\ \A c \in Buckets :
                  cc[c] = Cardinality({i \in opaque :
                              classify_color(ChunkR(arg, i), ChunkG(arg, i), ChunkB(arg, i)) = c})
            /\ DOMAIN hist = {c \in Buckets : cc[c] > 0}
            /\ \A c \in DOMAIN hist :
                  /\ hist[c] = Frac(cc[c], n)
                  /\ FracLeq(Frac(0, 1), hist[c]) /\ FracLeq(hist[c], Frac(1, 1))
            /\ n > 0 => SumOver([c \in Buckets |-> IF c \in DOMAIN hist THEN hist[c][1] ELSE 0]) = n
            /\ n = 0 => DOMAIN hist = {}

(* two buckets, and a transparent pixel that no bucket counts *)
C9_Witness ==
    /\ C9_Applies
    /\ ret.status = "ok"
    /\ Cardinality(DOMAIN ret.histogram) >= 2
    /\ Cardinality(OpaqueChunks(arg)) < NumChunks(arg)
    /\ Cardinality(OpaqueChunks(arg)) >= 2

(* C10: the confidence of the material triage is the frequency of the        *)
(* dominant (largest-frequency) bucket plus the boost of the final label,    *)
(* clamped to 1, also when a water-dominant image is relabelled glass while  *)
(* a glass bucket is present; it is the default 0.5 only when the final      *)
(* label is no key of the histogram.                                         *)

LabelBoost(label) ==
    IF label \in {"wood", "stone", "grass", "water"} THEN Frac(2, 10)
    ELSE IF label \in {"metal", "glass"} THEN Frac(1, 10)
    ELSE Frac(0, 10)

LargestFrequency(hist) ==
    hist[CHOOSE c \in DOMAIN hist : \A d \in DOMAIN hist : FracLeq(hist[d], hist[c])]

C10_ConfidenceFromDominantBucket ==
    (call = "MaterialTriageEngine.analyze_sprite" /\ ret.status = "ok")
    => IF ret.material_type \in DOMAIN ret.color_profile
       THEN FracEq(ret.confidence,
                   FracMin(FracAdd(LargestFrequency(ret.color_profile),
                                   LabelBoost(ret.material_type)),
                           Frac(1, 1)))
       ELSE FracEq(ret.confidence, Frac(1, 2))

(* C11: in material-triage mode, when one bucket of the histogram has        *)
(* strictly the largest frequency, the label is that bucket's own name for   *)
(* wood, stone, grass, metal, glass and organic; for water it is glass when  *)
(* the edge density is > 0.15 and water otherwise; for other, or with an     *)
(* empty histogram, it is unknown.                                           *)

StrictlyLargest(hist) ==
    {c \in DOMAIN hist : \A d \in (DOMAIN hist) \ {c} : FracLess(hist[d], hist[c])}

LabelOfBucket(c, edge_density) ==
    IF c = "water"
    THEN (IF FracLess(Frac(15, 100), edge_density) THEN "glass" ELSE "water")
    ELSE IF c \in {"wood", "stone", "grass", "metal", "glass", "organic"} THEN c
    ELSE "unknown"

ReturnsDescriptor ==
    /\ call \in {"MaterialTriageEngine.analyze_sprite", "Simple.analyze_sprite"}
    /\ ret.status = "ok"

C11_LabelFollowsDominantBucket ==
    ReturnsDescriptor =>
        /\ \A c \in StrictlyLargest(ret.color_profile) :
              ret.material_type = LabelOfBucket(c, ret.edge_density)
        /\ DOMAIN ret.color_profile = {} => ret.material_type = "unknown"

(* C12: analyzeMaterial is deterministic: a second call on the same buffer,  *)
(* width and height returns the same material label and the same confidence *)
(* as the first, also when two or more buckets tie for the largest          *)
(* frequency.                                                               *)

C12_AnalysisIsDeterministic ==
    [][(/\ ReturnsDescriptor
        /\ call' = call
        /\ arg' = arg
        /\ ret'.status = "ok")
       => (/\ ret'.material_type = ret.material_type
           /\ FracEq(ret'.confidence, ret.confidence))]_vars

(* C13: for every well-formed fully transparent image (every alpha 0,        *)
(* width >= 1, height >= 1) analyzeMaterial returns without error a          *)
(* descriptor with a zero-area bounding box, an empty histogram and          *)
(* confidence 0.                                                             *)

C13_Applies ==
    /\ call \in {"MaterialTriageEngine.analyze_sprite", "Simple.analyze_sprite"}
    /\ IsValid(arg, width, height)
    /\ width >= 1 /\ height >= 1
    /\ OpaqueChunks(arg) = {}

C13_TransparentImageHasZeroConfidence ==
    C13_Applies =>
        /\ ret.status = "ok"
        /\ ret.alpha_bounding_box[3] = 0 /\ ret.alpha_bounding_box[4] = 0
        /\ DOMAIN ret.color_profile = {}
        /\ FracEq(ret.confidence, Frac(0, 1))

(* C13 as amended: the same, with confidence 0.5, the default of a label     *)
(* that is no key of the histogram (the label is unknown).                   *)

C13_TransparentImageHasDefaultConfidence ==
    C13_Applies =>
        /\ ret.status = "ok"
        /\ ret.alpha_bounding_box[3] = 0 /\ ret.alpha_bounding_box[4] = 0
        /\ DOMAIN ret.color_profile = {}
        /\ FracEq(ret.confidence, Frac(5, 10))

C13_Witness ==
    /\ C13_Applies
    /\ call = "MaterialTriageEngine.analyze_sprite"
    /\ width >= 2 /\ height >= 2
    /\ ret.status = "ok"
    /\ ret.material_type = "unknown"
    /\ ret.alpha_bounding_box = <<width, height, 0, 0>>
    /\ ret.confidence = Frac(5, 10)

(* C15: the confidence reported by analyzeMaterial lies in [0, 1] for every  *)
(* well-formed buffer, every histogram and every resulting label, in the     *)
(* full and in the reduced engine.                                           *)

C15_ConfidenceInUnitInterval ==
    (ReturnsDescriptor /\ IsValid(arg, width, height)) =>
        /\ ret.confidence[2] > 0
        /\ FracLeq(Frac(0, 1), ret.confidence)
        /\ FracLeq(ret.confidence, Frac(1, 1))

(* the clamp acts: a glass-only image, frequency 1 plus boost 0.1 *)
C15_Witness ==
    /\ call = "MaterialTriageEngine.analyze_sprite"
    /\ IsValid(arg, width, height)
    /\ ret.status = "ok"
    /\ ret.material_type = "glass"
    /\ FracLess(Frac(1, 1), FracAdd(ret.color_profile["glass"], Frac(1, 10)))
    /\ FracEq(ret.confidence, Frac(1, 1))

(* C14: empty images are valid inputs.  For a zero-length buffer with        *)
(* width = 0 or height = 0, get_edge_density, analyzeMaterial and cleanEdges *)
(* complete and return a defined result: edge density 0.0, an empty output   *)
(* buffer.                                                                   *)

C14_EmptyImageIsHandled ==
    (/\ call \in {"MaterialTriageEngine.get_edge_density",
                  "MaterialTriageEngine.analyze_sprite",
                  "HarvestScanner.auto_clean_edges"}
     /\ arg = <<>>
     /\ (width = 0 \/ height = 0))
    => /\ ret.status = "ok"
       /\ call = "MaterialTriageEngine.get_edge_density" => FracEq(ret.density, Frac(0, 1))
       /\ call = "MaterialTriageEngine.analyze_sprite" => FracEq(ret.edge_density, Frac(0, 1))
       /\ call = "HarvestScanner.auto_clean_edges" => ret.cleaned = <<>>

(* C17: cleanEdges never erases content, whatever the padding: on a          *)
(* well-formed buffer and for every u32 threshold, also one for which        *)
(* max_x + threshold or max_y + threshold leaves the u32 range, every pixel  *)
(* with alpha > 0 in the input is byte-identical in the output, so the alpha *)
(* bounding box of the output is that of the input.                          *)

C17_CleanEdgesKeepsContent ==
    (/\ call = "HarvestScanner.auto_clean_edges"
     /\ IsValid(arg, width, height)
     /\ OpaqueChunks(arg) # {})
    => /\ ret.status = "ok"
       /\ Len(ret.cleaned) = Len(arg)
       /\ \A i \in OpaqueChunks(arg) :
             SubSeq(ret.cleaned, 4 * i + 1, 4 * i + 4) = SubSeq(arg, 4 * i + 1, 4 * i + 4)
       /\ calculate_alpha_bounding_box(ret.cleaned, width, height)
              = calculate_alpha_bounding_box(arg, width, height)

(* C18: the reduced colour classifier is the full classifier cut after the  *)
(* water rule: for every (r, g, b) it returns the bucket of the full         *)
(* classifier when that is wood, stone, grass or water, and other when the   *)
(* full classifier returns metal, glass, organic or other.                   *)

CutAfterWater(label) ==
    IF label \in {"wood", "stone", "grass", "water"} THEN label ELSE "other"

C18_ReducedIsFullCutAfterWater ==
    call = "Simple.classify_color"
    => ret.label = CutAfterWater(classify_color(rgb[1], rgb[2], rgb[3]))

(* a colour the full classifier calls metal, glass or organic *)
C18_Witness ==
    /\ call = "Simple.classify_color"
    /\ classify_color(rgb[1], rgb[2], rgb[3]) \in {"metal", "glass", "organic"}
    /\ ret.label = "other"

(* C16: in sprite-triage mode the four flags are computed independently of  *)
(* one another from the counts of one pass over the opaque pixels:           *)
(* is_character iff opaque > 20 and 0.5 <= width/height <= 2.0 and           *)
(* distinct > 3; is_decoration iff distinct/opaque > 0.05 or                 *)
(* green/opaque > 0.2 or gray/opaque > 0.3; is_material iff                  *)
(* distinct/opaque < 0.1; is_chest iff brown_gold/opaque > the chest         *)
(* threshold configured at construction (0.3 by default); with no opaque     *)
(* pixel every ratio is 0: is_material is true, the other three are false.   *)

OpaqueColours(buf) == {<<ChunkR(buf, i), ChunkG(buf, i), ChunkB(buf, i)>> : i \in OpaqueChunks(buf)}

CountWhere(buf, Test(_, _, _)) ==
    Cardinality({i \in OpaqueChunks(buf) : Test(ChunkR(buf, i), ChunkG(buf, i), ChunkB(buf, i))})

C16_Applies ==
    /\ call = "HarvestScanner.analyze_sprite"
    /\ IsValid(arg, width, height)

C16_FlagsFollowCounts ==
    C16_Applies =>
        LET opaque == Cardinality(OpaqueChunks(arg))
            distinct == Cardinality(OpaqueColours(arg))
            brown_gold == CountWhere(arg, is_brown_gold)
            green == CountWhere(arg, is_green)
            gray == CountWhere(arg, is_gray)
        IN  /\ ret.status = "ok"
            /\ ret.is_character <=>
                  (/\ opaque > 20
                   /\ height > 0 /\ height <= 2 * width /\ width <= 2 * height
                   /\ distinct > 3)
            /\ ret.is_decoration <=>
                  (opaque > 0 /\ (\/ 100 * distinct > 5 * opaque
                                  \/ 10 * green > 2 * opaque
                                  \/ 10 * gray > 3 * opaque))
            /\ ret.is_material <=> (opaque = 0 \/ 10 * distinct < opaque)
            /\ ret.is_chest <=>
                  (opaque > 0 /\ brown_gold * chest_threshold[2] > chest_threshold[1] * opaque)
            /\ opaque = 0 =>
                  (ret.is_material /\ ~ret.is_character /\ ~ret.is_decoration /\ ~ret.is_chest)

(* a sprite that is a character, a decoration and a chest at once, the chest *)
(* threshold being the configured one                                        *)
C16_Witness ==
    /\ C16_Applies
    /\ ret.status = "ok"
    /\ chest_threshold # DefaultChestThreshold
    /\ ret.is_character /\ ret.is_decoration /\ ret.is_chest /\ ~ret.is_material

====
